---- MODULE Spec2Model ----
(***************************************************************************)
(* Model of the FCM HTTP gateway of src/main.go: process start-up (main),  *)
(* the gin handler chain (APIKeyAuthMiddleware, StateMiddleware, the four  *)
(* route handlers) and the gin response writer the handlers write to.      *)
(*                                                                         *)
(* Strings the code inspects (the Authorization header, API_KEY) are       *)
(* sequences of one-character strings, so HasPrefix / TrimPrefix are       *)
(* computed, not assumed.  Text the code only assembles (response bodies)  *)
(* is a sequence of pieces in output order.                                *)
(***************************************************************************)
EXTENDS Integers, Sequences, FiniteSets, TLC

VARIABLES
    pc,       \* position of main(): "load", "newapp", "messaging", "router", "serving", "exited"
    envErr,   \* main.go:42  envErr != nil
    err,      \* main.go:46 / main.go:54  err != nil
    env,      \* the process environment's API_KEY ("" when unset)
    state,    \* main.go:56  the AppState main() builds
    reqs      \* one gin.Context per worker goroutine

vars == <<pc, envErr, err, env, state, reqs>>

(***************************************************************************)
(* Bounds and finite input sets                                            *)
(***************************************************************************)
MaxTokens == 2

Workers == {"w1", "w2"}

Paths == {"/publish", "/broadcast", "/subscribe", "/unsubscribe"}

Keys == {<<>>, <<"k">>}

BearerPrefix == <<"B", "e", "a", "r", "e", "r", " ">>

Headers ==
    {  <<>>,                                         \* header missing
       BearerPrefix,                                 \* "Bearer "
       BearerPrefix \o <<"k">>,                      \* "Bearer k"
       BearerPrefix \o <<"w">>,                      \* "Bearer w"
       BearerPrefix \o <<" ", "k">>,                 \* "Bearer  k"
       <<"b", "e", "a", "r", "e", "r", " ", "k">>,   \* "bearer k"
       <<"B", "e", "a", "r", "e", "r">>,             \* "Bearer"
       <<"B", "a", "s", "i", "c", " ", "k">>,        \* "Basic k"
       <<"k">> }                                     \* "k"

TokenNames == <<"t1", "t2", "t3", "t4">>

TokenLists == { [i \in 1..n |-> TokenNames[i]] : n \in 0..MaxTokens }

Reasons == {"invalid-registration-token"}

(***************************************************************************)
(* HTTP status codes                                                       *)
(***************************************************************************)
StatusOK == 200

StatusAccepted == 202

StatusBadRequest == 400

StatusUnauthorized == 401

StatusInternalServerError == 500

StatusBadGateway == 502

(***************************************************************************)
(* Request bodies.  kind "ok": well-formed JSON of the expected shape;     *)
(* "syntax": not JSON at all, nothing decodes; "shape": valid JSON whose   *)
(* target field ("to" / "topic") has the wrong JSON type, so encoding/json *)
(* leaves that field zero, fills the others and reports the type error.    *)
(***************************************************************************)
Kinds == {"ok", "syntax", "shape"}

ZeroInput == [target |-> "", tokens |-> <<>>, title |-> ""]

SendBodies(target) ==
    { [kind |-> "ok", target |-> target, tokens |-> <<>>, title |-> "Hi"],
      [kind |-> "shape", target |-> target, tokens |-> <<>>, title |-> "Hi"],
      [kind |-> "syntax", target |-> "", tokens |-> <<>>, title |-> ""] }

TopicBodies ==
    { [kind |-> k, target |-> "news", tokens |-> t, title |-> ""] :
          k \in {"ok", "shape"}, t \in TokenLists }
    \cup { [kind |-> "syntax", target |-> "", tokens |-> <<>>, title |-> ""] }

(***************************************************************************)
(* Provider results.  Send returns (id, err).  The topic calls return      *)
(* (response, err); the response is built from one result per token, "" a  *)
(* success and anything else the failure reason.                           *)
(***************************************************************************)
NoAnswer == [err |-> "", results |-> <<>>]

SendAnswers == { NoAnswer, [err |-> "unavailable", results |-> <<>>] }

TopicAnswers(tokens) ==
    { [err |-> "", results |-> res] :
          res \in [1..Len(tokens) -> Reasons \cup {""}] }
    \cup { [err |-> "unavailable", results |-> <<>>] }

RECURSIVE ErrorsFrom(_, _)
\* response.Errors: one ErrorInfo{Index, Reason} per failed token, by index
ErrorsFrom(results, i) ==
    IF i > Len(results) THEN <<>>
    ELSE IF results[i] = "" THEN ErrorsFrom(results, i + 1)
    ELSE <<[Index |-> i - 1, Reason |-> results[i]]>> \o ErrorsFrom(results, i + 1)

TopicManagementResponse(ans) ==
    LET errors == ErrorsFrom(ans.results, 1)
    IN  [FailureCount |-> Len(errors),
         SuccessCount |-> Len(ans.results) - Len(errors),
         Errors |-> errors]

(***************************************************************************)
(* strings                                                                 *)
(***************************************************************************)
\* variant: an empty bearer value is taken for a missing one
HasPrefixStrict(s, prefix) ==
    Len(s) > Len(prefix) /\ SubSeq(s, 1, Len(prefix)) = prefix

HasPrefix(s, prefix) ==
    Len(s) >= Len(prefix) /\ SubSeq(s, 1, Len(prefix)) = prefix

TrimPrefix(s, prefix) ==
    IF HasPrefix(s, prefix) THEN SubSeq(s, Len(prefix) + 1, Len(s)) ELSE s

Digits == <<"0", "1", "2", "3", "4", "5", "6", "7", "8", "9">>

RECURSIVE Itoa(_)
\* the %d verb
Itoa(n) ==
    IF n < 10 THEN <<Digits[n + 1]>> ELSE Itoa(n \div 10) \o <<Digits[(n % 10) + 1]>>

(***************************************************************************)
(* gin.Context and its response writer                                     *)
(***************************************************************************)
NewContext ==
    [stage |-> "idle", path |-> "", header |-> <<>>,
     keyRead |-> FALSE, appApiKey |-> <<>>,
     aborted |-> FALSE, keys |-> <<>>, handler |-> "none",
     body |-> [kind |-> "ok", target |-> "", tokens |-> <<>>, title |-> ""],
     input |-> ZeroInput, calls |-> <<>>, answer |-> NoAnswer,
     status |-> StatusOK, written |-> FALSE, out |-> <<>>]

\* responseWriter.WriteHeader: a status is kept only until the header is out
Status(c, code) ==
    IF code > 0 /\ c.status # code /\ ~c.written
    THEN [c EXCEPT !.status = code]
    ELSE c

WriteHeaderNow(c) == [c EXCEPT !.written = TRUE]

\* variant: the chain is not stopped
AbortForgotten(c) == c

Abort(c) == [c EXCEPT !.aborted = TRUE]

AbortWithStatus(c, code) == Abort(WriteHeaderNow(Status(c, code)))

\* c.JSON: set the status, then render the object (which sends the header)
JSON(c, code, obj) ==
    LET c1 == WriteHeaderNow(Status(c, code))
    IN  [c1 EXCEPT !.out = Append(c1.out, obj)]

\* variant: the value is not stored
SetDropped(keys, key, value) == keys

Set(keys, key, value) ==
    [k \in DOMAIN keys \cup {key} |-> IF k = key THEN value ELSE keys[k]]

Get(keys, key) ==
    IF key \in DOMAIN keys
    THEN [value |-> keys[key], exists |-> TRUE]
    ELSE [value |-> [MsgClient |-> "nil"], exists |-> FALSE]

\* what encoding/json leaves in the struct
Decode(body) ==
    IF body.kind = "ok" THEN [target |-> body.target, tokens |-> body.tokens, title |-> body.title]
    ELSE IF body.kind = "shape" THEN [target |-> "", tokens |-> body.tokens, title |-> body.title]
    ELSE ZeroInput

\* variant: ShouldBind, which leaves the response alone
ShouldBind(c, body) == [c EXCEPT !.body = body, !.input = Decode(body)]

\* c.Bind: MustBindWith, which on a binding error answers 400 at once
\* (AbortWithError) and returns the error to a caller that drops it
Bind(c, body) ==
    LET c1 == [c EXCEPT !.body = body, !.input = Decode(body)]
    IN  IF body.kind = "ok" THEN c1 ELSE AbortWithStatus(c1, StatusBadRequest)

\* a panic in a handler is caught by gin.Default()'s Recovery
Recovery(c) == AbortWithStatus(c, StatusInternalServerError)

\* variant: a failed call is made a second time
InvokeRetry(c, method, token, topic, tokens, ans) ==
    LET call == [method |-> method, token |-> token, topic |-> topic,
                 tokens |-> tokens, title |-> c.input.title]
    IN  [c EXCEPT !.calls = IF ans.err # "" THEN c.calls \o <<call, call>>
                            ELSE Append(c.calls, call),
                  !.answer = ans]

\* one call of a method of state.MsgClient
Invoke(c, method, token, topic, tokens, ans) ==
    [c EXCEPT !.calls = Append(c.calls,
                  [method |-> method, token |-> token, topic |-> topic,
                   tokens |-> tokens, title |-> c.input.title]),
              !.answer = ans]

\* the engine, once the chain has returned: the header goes out if it has not
Finish(c, name) ==
    [WriteHeaderNow(c) EXCEPT !.stage = "done", !.handler = name]

(***************************************************************************)
(* main(): start-up                                                        *)
(***************************************************************************)
\* variant: the error is logged and main() goes on
FatalReturns(next) == next

\* log.Fatal logs and exits the process
Fatal(next) == "exited"

\* variant: the secret is fixed when the program is built
GetenvFixed(name) == IF name = "API_KEY" THEN <<"k">> ELSE <<>>

Getenv(name) == IF name = "API_KEY" THEN env ELSE <<>>

Init ==
    /\ pc = "load"
    /\ envErr = FALSE
    /\ err = FALSE
    /\ env = <<>>
    /\ state = [MsgClient |-> "nil"]
    /\ reqs = [w \in Workers |-> NewContext]

\* godotenv.Load(): the .env file is read into the process environment
LoadEnv ==
    /\ pc = "load"
    /\ \E failed \in BOOLEAN, fileKey \in Keys :
          /\ envErr' = failed
          /\ env' = IF failed THEN env ELSE fileKey
          /\ pc' = IF failed THEN Fatal("newapp") ELSE "newapp"
    /\ UNCHANGED <<err, state, reqs>>

\* firebase.NewApp
NewApp ==
    /\ pc = "newapp"
    /\ \E failed \in BOOLEAN :
          /\ err' = failed
          /\ pc' = IF failed THEN Fatal("messaging") ELSE "messaging"
    /\ UNCHANGED <<envErr, env, state, reqs>>

\* app.Messaging; the AppState is built before err is looked at
Messaging ==
    /\ pc = "messaging"
    /\ \E failed \in BOOLEAN :
          /\ err' = failed
          /\ state' = [MsgClient |-> IF failed THEN "nil" ELSE "client"]
          /\ pc' = IF failed THEN Fatal("router") ELSE "router"
    /\ UNCHANGED <<envErr, env, reqs>>

\* gin.Default(), the two Use, the four POST, router.Run
Run ==
    /\ pc = "router"
    /\ pc' = "serving"
    /\ UNCHANGED <<envErr, err, env, state, reqs>>

\* the process environment is process-wide mutable state: API_KEY is given
\* another value while the server runs
Setenv ==
    /\ pc = "serving"
    /\ \E k \in Keys \ {env} : env' = k
    /\ UNCHANGED <<pc, envErr, err, state, reqs>>

(***************************************************************************)
(* The handler chain                                                       *)
(***************************************************************************)
APIKeyAuthMiddleware(c) ==
    LET authHeader == c.header
    IN  IF authHeader = <<>> \/ ~HasPrefix(authHeader, BearerPrefix)
        THEN Abort(JSON(c, StatusUnauthorized,
                        [field |-> "error",
                         text |-> <<"Unauthorized: Missing or invalid token">>]))
        ELSE LET appApiKey == Getenv("API_KEY")
                 apiKey == TrimPrefix(authHeader, BearerPrefix)
                 c1 == [c EXCEPT !.keyRead = TRUE, !.appApiKey = appApiKey]
             IN  IF apiKey # appApiKey
                 THEN Abort(JSON(c1, StatusUnauthorized,
                                 [field |-> "error",
                                  text |-> <<"Unauthorized: Invalid API Key">>]))
                 ELSE c1

StateMiddleware(c) == [c EXCEPT !.keys = Set(c.keys, "state", state)]

\* variant: a Send error is logged and the handler falls through to 202
publishDryRunFallsThrough(c, body, ans) ==
    LET c1 == Bind(c, body)
        appState == Get(c1.keys, "state")
    IN  IF ~appState.exists \/ appState.value.MsgClient = "nil"
        THEN Recovery(c1)
        ELSE Status(Invoke(c1, "Send", c1.input.target, "", <<>>, ans), StatusAccepted)

publishDryRun(c, body, ans) ==
    LET c1 == Bind(c, body)
        appState == Get(c1.keys, "state")
    IN  IF ~appState.exists \/ appState.value.MsgClient = "nil"
        THEN Recovery(c1)
        ELSE LET c2 == Invoke(c1, "Send", c1.input.target, "", <<>>, ans)
             IN  IF ans.err # ""
                 THEN JSON(c2, StatusBadGateway,
                           [field |-> "error",
                            text |-> <<"error found while publishing message: ", ans.err>>])
                 ELSE Status(c2, StatusAccepted)

BroadcastMsg(c, body, ans) ==
    LET c1 == Bind(c, body)
        appState == Get(c1.keys, "state")
    IN  IF ~appState.exists \/ appState.value.MsgClient = "nil"
        THEN Recovery(c1)
        ELSE LET c2 == Invoke(c1, "Send", "", c1.input.target, <<>>, ans)
             IN  IF ans.err # ""
                 THEN JSON(c2, StatusBadGateway,
                           [field |-> "error",
                            text |-> <<"error found while broadcasting message: ", ans.err>>])
                 ELSE Status(c2, StatusAccepted)

\* variant: only the first entry of response.Errors is written
FormatErrorsFirstOnly(errors) ==
    IF errors = <<>> THEN <<>>
    ELSE <<"Code: ">> \o Itoa(Head(errors).Index)
             \o <<", Message: ", Head(errors).Reason>>

RECURSIVE FormatErrors(_)
\* the strings.Builder loop: one Fprintf per entry of response.Errors
FormatErrors(errors) ==
    IF errors = <<>> THEN <<>>
    ELSE <<"Code: ">> \o Itoa(Head(errors).Index)
             \o <<", Message: ", Head(errors).Reason>>
             \o FormatErrors(Tail(errors))

\* variant: a subscription another worker has completed is answered from memory
SubscribeToTopicRemembered(c, body, ans) ==
    LET c1 == Bind(c, body)
        c2 == Invoke(c1, "SubscribeToTopic", "", c1.input.target, c1.input.tokens, ans)
        response == TopicManagementResponse(ans)
        seen == \E v \in Workers :
                    /\ reqs[v].stage = "done"
                    /\ reqs[v].handler = "SubscribeToTopic"
                    /\ reqs[v].body = body
    IN  IF ans.err # ""
        THEN JSON(c2, StatusBadGateway,
                  [field |-> "error",
                   text |-> <<"error found while subscribing to topic: ", ans.err>>])
        ELSE IF response.FailureCount # 0 /\ ~seen
        THEN JSON(c2, StatusBadGateway,
                  [field |-> "errors",
                   text |-> <<"errors while subscribing to topic: ">>
                               \o FormatErrors(response.Errors)])
        ELSE Status(c2, StatusAccepted)

SubscribeToTopic(c, body, ans) ==
    LET c1 == Bind(c, body)
        appState == Get(c1.keys, "state")
    IN  IF ~appState.exists \/ appState.value.MsgClient = "nil"
        THEN Recovery(c1)
        ELSE LET c2 == Invoke(c1, "SubscribeToTopic", "", c1.input.target,
                              c1.input.tokens, ans)
                 response == TopicManagementResponse(ans)
             IN  IF ans.err # ""
                 THEN JSON(c2, StatusBadGateway,
                           [field |-> "error",
                            text |-> <<"error found while subscribing to topic: ", ans.err>>])
                 ELSE IF response.FailureCount # 0
                 THEN JSON(c2, StatusBadGateway,
                           [field |-> "errors",
                            text |-> <<"errors while subscribing to topic: ">>
                                        \o FormatErrors(response.Errors)])
                 ELSE Status(c2, StatusAccepted)

UnsubscribeFromTopic(c, body, ans) ==
    LET c1 == Bind(c, body)
        appState == Get(c1.keys, "state")
    IN  IF ~appState.exists \/ appState.value.MsgClient = "nil"
        THEN Recovery(c1)
        ELSE LET c2 == Invoke(c1, "UnsubscribeFromTopic", "", c1.input.target,
                              c1.input.tokens, ans)
                 response == TopicManagementResponse(ans)
             IN  IF ans.err # ""
                 THEN JSON(c2, StatusBadGateway,
                           [field |-> "error",
                            text |-> <<"error found while unsubscribing from topic: ", ans.err>>])
                 ELSE IF response.FailureCount # 0
                 THEN JSON(c2, StatusBadGateway,
                           [field |-> "errors",
                            text |-> <<"errors while subscribing to topic: ">>
                                        \o FormatErrors(response.Errors)])
                 ELSE Status(c2, StatusAccepted)

(***************************************************************************)
(* The router: one step per link of the chain, per worker                  *)
(***************************************************************************)
\* a request is accepted on a free worker
Arrive(w) ==
    /\ pc = "serving"
    /\ reqs[w].stage \in {"idle", "done"}
    /\ \E p \in Paths, h \in Headers :
          reqs' = [reqs EXCEPT ![w] =
                      [NewContext EXCEPT !.stage = "recv", !.path = p, !.header = h]]
    /\ UNCHANGED <<pc, envErr, err, env, state>>

\* router.Use(APIKeyAuthMiddleware())
UseAuth(w) ==
    /\ reqs[w].stage = "recv"
    /\ LET c == APIKeyAuthMiddleware(reqs[w])
       IN  reqs' = [reqs EXCEPT ![w] =
                       IF c.aborted THEN Finish(c, "none")
                       ELSE [c EXCEPT !.stage = "authed"]]
    /\ UNCHANGED <<pc, envErr, err, env, state>>

\* router.Use(StateMiddleware(state))
UseState(w) ==
    /\ reqs[w].stage = "authed"
    /\ LET c == StateMiddleware(reqs[w])
       IN  reqs' = [reqs EXCEPT ![w] =
                       IF c.aborted THEN Finish(c, "none")
                       ELSE [c EXCEPT !.stage = "handler"]]
    /\ UNCHANGED <<pc, envErr, err, env, state>>

PostPublish(w) ==
    /\ reqs[w].stage = "handler"
    /\ reqs[w].path = "/publish"
    /\ \E body \in SendBodies("tok_abc"), ans \in SendAnswers :
          reqs' = [reqs EXCEPT ![w] =
                      Finish(publishDryRun(reqs[w], body, ans), "publishDryRun")]
    /\ UNCHANGED <<pc, envErr, err, env, state>>

PostBroadcast(w) ==
    /\ reqs[w].stage = "handler"
    /\ reqs[w].path = "/broadcast"
    /\ \E body \in SendBodies("news"), ans \in SendAnswers :
          reqs' = [reqs EXCEPT ![w] =
                      Finish(BroadcastMsg(reqs[w], body, ans), "BroadcastMsg")]
    /\ UNCHANGED <<pc, envErr, err, env, state>>

PostSubscribe(w) ==
    /\ reqs[w].stage = "handler"
    /\ reqs[w].path = "/subscribe"
    /\ \E body \in TopicBodies :
          \E ans \in TopicAnswers(Decode(body).tokens) :
              reqs' = [reqs EXCEPT ![w] =
                          Finish(SubscribeToTopic(reqs[w], body, ans), "SubscribeToTopic")]
    /\ UNCHANGED <<pc, envErr, err, env, state>>

PostUnsubscribe(w) ==
    /\ reqs[w].stage = "handler"
    /\ reqs[w].path = "/unsubscribe"
    /\ \E body \in TopicBodies :
          \E ans \in TopicAnswers(Decode(body).tokens) :
              reqs' = [reqs EXCEPT ![w] =
                          Finish(UnsubscribeFromTopic(reqs[w], body, ans),
                                 "UnsubscribeFromTopic")]
    /\ UNCHANGED <<pc, envErr, err, env, state>>

Next ==
    \/ LoadEnv
    \/ NewApp
    \/ Messaging
    \/ Run
    \/ Setenv
    \/ \E w \in Workers :
          \/ Arrive(w)
          \/ UseAuth(w)
          \/ UseState(w)
          \/ PostPublish(w)
          \/ PostBroadcast(w)
          \/ PostSubscribe(w)
          \/ PostUnsubscribe(w)

Spec == Init /\ [][Next]_vars

(***************************************************************************)
(* Vocabulary of the properties                                            *)
(***************************************************************************)
\* the filter has decided the request
Decided(c) == c.stage \notin {"idle", "recv"}

\* the request went past the filter
Passed(c) == c.stage \in {"authed", "handler"} \/ (c.stage = "done" /\ c.handler # "none")

\* a route handler ran to its end
Ran(c) == c.stage = "done" /\ c.handler # "none"

\* the header is "Bearer " followed by the secret the filter read
ValidBearer(c) == c.keyRead /\ c.header = BearerPrefix \o c.appApiKey

Contains(text, piece) == \E i \in 1..Len(text) : text[i] = piece

ProviderFailed(c) ==
    c.answer.err # "" \/ \E i \in 1..Len(c.answer.results) : c.answer.results[i] # ""

\* this step is worker w's run of the filter
AuthStep(w) == reqs[w].stage = "recv" /\ reqs'[w].stage # "recv"

(***************************************************************************)
(* C1: a request whose Authorization header is not "Bearer <API_KEY>"      *)
(* (missing, other scheme, other value) is answered 401 with a JSON error  *)
(* body; no handler runs for it and the provider client is not invoked.    *)
(***************************************************************************)
C1_Unauthorized ==
    \A w \in Workers :
        LET c == reqs[w]
        IN  (Decided(c) /\ ~ValidBearer(c)) =>
                /\ c.stage = "done"
                /\ c.status = StatusUnauthorized
                /\ c.written
                /\ Len(c.out) = 1
                /\ c.out[1].field = "error"
                /\ c.handler = "none"
                /\ c.calls = <<>>
                /\ DOMAIN c.keys = {}

C1_Witness ==
    \E w, v \in Workers :
        /\ reqs[w].stage = "done"
        /\ reqs[w].header = BearerPrefix \o <<"w">>
        /\ reqs[w].status = StatusUnauthorized
        /\ reqs[v].stage = "done"
        /\ reqs[v].header = <<>>
        /\ reqs[v].status = StatusUnauthorized

(***************************************************************************)
(* C7: a failure of godotenv.Load, firebase.NewApp or app.Messaging ends   *)
(* the process before the router listens: no request is ever accepted      *)
(* after a start-up failure, and a request is only ever in progress while  *)
(* the process serves with a non-nil messaging client.                     *)
(***************************************************************************)
C7_StartupFatal ==
    /\ (envErr \/ err) => pc = "exited"
    /\ pc # "serving" => \A w \in Workers : reqs[w].stage = "idle"
    /\ \A w \in Workers :
          reqs[w].stage # "idle" =>
              /\ pc = "serving"
              /\ ~envErr
              /\ ~err
              /\ state.MsgClient = "client"

C7_Witness ==
    /\ pc = "exited"
    /\ err
    /\ ~envErr
    /\ state.MsgClient = "nil"
    /\ \A w \in Workers : reqs[w].stage = "idle"

(***************************************************************************)
(* C9: whenever a handler is about to run or has run, the "state" key is   *)
(* present in its context and holds the AppState main() built (with its    *)
(* client), the filter has accepted the request before, and the lookup and *)
(* downcast did not panic.                                                 *)
(***************************************************************************)
C9_StateInContext ==
    \A w \in Workers :
        LET c == reqs[w]
        IN  (c.stage = "handler" \/ Ran(c)) =>
                /\ "state" \in DOMAIN c.keys
                /\ c.keys["state"] = state
                /\ state.MsgClient = "client"
                /\ ValidBearer(c)
                /\ c.status # StatusInternalServerError

C9_Witness ==
    \E w, v \in Workers :
        /\ w # v
        /\ Ran(reqs[w])
        /\ reqs[v].stage = "handler"
        /\ reqs[w].keys["state"] = reqs[v].keys["state"]

(***************************************************************************)
(* C2 as stated: every authenticated /publish or /broadcast request is     *)
(* answered 202 with no body when Send succeeds and 502 with the           *)
(* provider's error text in "error" when Send fails, and nothing else.     *)
(***************************************************************************)
SendOutcome(c) ==
    IF c.answer.err = ""
    THEN c.status = StatusAccepted /\ c.out = <<>>
    ELSE /\ c.status = StatusBadGateway
         /\ Len(c.out) = 1
         /\ c.out[1].field = "error"
         /\ Contains(c.out[1].text, c.answer.err)

C2_AsStated ==
    \A w \in Workers :
        LET c == reqs[w]
        IN  (Ran(c) /\ c.path \in {"/publish", "/broadcast"}) => SendOutcome(c)

(***************************************************************************)
(* C2 amended: the 202 / 502 contract holds for the authenticated /publish *)
(* and /broadcast requests whose body binds; when the body does not bind   *)
(* the status is 400, and these are the only three statuses.               *)
(***************************************************************************)
C2_SendContract ==
    \A w \in Workers :
        LET c == reqs[w]
        IN  (Ran(c) /\ c.path \in {"/publish", "/broadcast"}) =>
                /\ Len(c.calls) = 1
                /\ c.calls[1].method = "Send"
                /\ IF c.body.kind = "ok" THEN SendOutcome(c)
                   ELSE c.status = StatusBadRequest

C2_Witness ==
    \E w, v \in Workers :
        /\ Ran(reqs[w]) /\ reqs[w].path = "/publish" /\ reqs[w].body.kind = "ok"
        /\ reqs[w].answer.err # "" /\ reqs[w].status = StatusBadGateway
        /\ Ran(reqs[v]) /\ reqs[v].path = "/broadcast" /\ reqs[v].body.kind = "ok"
        /\ reqs[v].answer.err = "" /\ reqs[v].status = StatusAccepted

(***************************************************************************)
(* C3 as stated: every authenticated /subscribe or /unsubscribe request is *)
(* answered 502 with "error" on a call error, 202 with no body on zero     *)
(* failures, and 502 with "errors" listing index and reason of every       *)
(* failed entry, in input index order, on N > 0 failures.                  *)
(***************************************************************************)
FailedIndexes(results) ==
    SelectSeq([i \in 1..Len(results) |-> i], LAMBDA i : results[i] # "")

RECURSIVE Flatten(_)
Flatten(ss) == IF ss = <<>> THEN <<>> ELSE Head(ss) \o Flatten(Tail(ss))

\* index (from 0) and reason of each failed entry, in input order
ExpectedEntries(results) ==
    LET failed == FailedIndexes(results)
    IN  Flatten([k \in 1..Len(failed) |->
                    <<"Code: ", Digits[failed[k]], ", Message: ", results[failed[k]]>>])

TopicOutcome(c) ==
    IF c.answer.err # ""
    THEN /\ c.status = StatusBadGateway
         /\ Len(c.out) = 1
         /\ c.out[1].field = "error"
         /\ Contains(c.out[1].text, c.answer.err)
    ELSE IF FailedIndexes(c.answer.results) = <<>>
    THEN c.status = StatusAccepted /\ c.out = <<>>
    ELSE /\ c.status = StatusBadGateway
         /\ Len(c.out) = 1
         /\ c.out[1].field = "errors"
         /\ SubSeq(c.out[1].text, 2, Len(c.out[1].text))
               = ExpectedEntries(c.answer.results)

C3_AsStated ==
    \A w \in Workers :
        LET c == reqs[w]
        IN  (Ran(c) /\ c.path \in {"/subscribe", "/unsubscribe"}) => TopicOutcome(c)

(***************************************************************************)
(* C3 amended: the same three outcomes hold for the authenticated          *)
(* /subscribe and /unsubscribe requests whose body binds; when the body    *)
(* does not bind the status is 400.                                        *)
(***************************************************************************)
C3_TopicContract ==
    \A w \in Workers :
        LET c == reqs[w]
        IN  (Ran(c) /\ c.path \in {"/subscribe", "/unsubscribe"}) =>
                IF c.body.kind = "ok" THEN TopicOutcome(c)
                ELSE c.status = StatusBadRequest

C3_Witness ==
    \E w, v \in Workers :
        /\ Ran(reqs[w]) /\ reqs[w].path = "/subscribe" /\ reqs[w].body.kind = "ok"
        /\ Len(FailedIndexes(reqs[w].answer.results)) = 2
        /\ reqs[w].status = StatusBadGateway
        /\ Ran(reqs[v]) /\ reqs[v].path = "/unsubscribe" /\ reqs[v].body.kind = "ok"
        /\ Len(reqs[v].answer.results) = 2
        /\ FailedIndexes(reqs[v].answer.results) = <<2>>
        /\ reqs[v].status = StatusBadGateway

MethodOf(path) ==
    IF path \in {"/publish", "/broadcast"} THEN "Send"
    ELSE IF path = "/subscribe" THEN "SubscribeToTopic"
    ELSE "UnsubscribeFromTopic"

SingleShot(c) ==
    /\ Len(c.calls) = 1
    /\ c.calls[1].method = MethodOf(c.path)
    /\ c.written
    /\ Len(c.out) <= 1

C8_AsStated ==
    \A w \in Workers :
        LET c == reqs[w]
        IN  Ran(c) =>
                /\ SingleShot(c)
                /\ ProviderFailed(c) => c.status = StatusBadGateway

(***************************************************************************)
(* C8 amended: every authenticated request causes exactly one provider     *)
(* call, of the method of its endpoint, and one response; a provider error *)
(* or partial failure is never retried, and is reported as 502 when the    *)
(* body had bound and under the 400 Bind has already sent when it had not. *)
(***************************************************************************)
C8_SingleShot ==
    \A w \in Workers :
        LET c == reqs[w]
        IN  /\ Passed(c) /\ ~Ran(c) => c.calls = <<>>
            /\ Ran(c) =>
                  /\ SingleShot(c)
                  /\ ProviderFailed(c) =>
                        /\ Len(c.out) = 1
                        /\ c.status = IF c.body.kind = "ok" THEN StatusBadGateway
                                      ELSE StatusBadRequest

C8_Witness ==
    \E w, v \in Workers :
        /\ Ran(reqs[w]) /\ reqs[w].body.kind = "ok" /\ reqs[w].answer.err # ""
        /\ reqs[w].status = StatusBadGateway /\ Len(reqs[w].calls) = 1
        /\ Ran(reqs[v]) /\ reqs[v].body.kind = "ok" /\ reqs[v].answer.err = ""
        /\ ProviderFailed(reqs[v])
        /\ reqs[v].status = StatusBadGateway /\ Len(reqs[v].calls) = 1

(***************************************************************************)
(* C10: the filter lets a request through if and only if its Authorization *)
(* header is exactly "Bearer " followed by the value API_KEY has at that   *)
(* moment (so "Bearer " alone passes when API_KEY is empty); a non-empty   *)
(* header without the prefix gets the 401 "Missing or invalid token", a    *)
(* prefixed header with another value the 401 "Invalid API Key".           *)
(***************************************************************************)
Rejected(c, message) ==
    /\ c.stage = "done"
    /\ c.handler = "none"
    /\ c.status = StatusUnauthorized
    /\ c.out = <<[field |-> "error", text |-> <<message>>]>>

C10_FilterExact ==
    [][\A w \in Workers :
          AuthStep(w) =>
              LET h == reqs[w].header
              IN  /\ reqs'[w].stage = "authed" <=> h = BearerPrefix \o env
                  /\ (h # <<>> /\ ~HasPrefix(h, BearerPrefix)) =>
                         Rejected(reqs'[w], "Unauthorized: Missing or invalid token")
                  /\ (HasPrefix(h, BearerPrefix) /\ h # BearerPrefix \o env) =>
                         Rejected(reqs'[w], "Unauthorized: Invalid API Key")]_vars

C10_Witness ==
    \E w, v \in Workers :
        /\ Ran(reqs[w])
        /\ reqs[w].header = BearerPrefix
        /\ reqs[w].appApiKey = <<>>
        /\ Len(reqs[w].calls) = 1
        /\ Rejected(reqs[v], "Unauthorized: Invalid API Key")
        /\ reqs[v].header = BearerPrefix \o <<" ", "k">>

====
